---------------------------- MODULE Spec2Model ----------------------------
(***************************************************************************)
(* Image-Text-Composer: the editor (Document) store, the history store,    *)
(* the UI handlers that drive them, the Fabric canvas reconciliation pass   *)
(* and the autosave hook, as a state machine.                               *)
(*                                                                         *)
(* Units.  JavaScript numbers that are not integers are scaled:            *)
(*   opacity, scaleX, scaleY : percent        (1    is 100)                 *)
(*   lineHeight              : hundredths     (1.2  is 120, 1.16 is 116)    *)
(*   aspectRatio             : the pair <<width, height>> (width / height)  *)
(* Layer ids (nanoid strings) are the naturals 1, 2, ...                    *)
(***************************************************************************)
EXTENDS Integers, Sequences, FiniteSets, TLC

(***************************************************************************)
(* Bounds of the model                                                     *)
(***************************************************************************)
MaxOps == 4          \* handler invocations explored by Spec
MaxIds == 2          \* layer ids nanoid() hands out in one behaviour
MaxNow == 1          \* ticks of the Date.now() clock
PushRunCap == 22     \* longest run of pushes SpecHistory counts exactly
MaxFontIds == 3      \* custom fonts created in one behaviour
MaxConfiguredSize == 3   \* largest maxHistorySize SpecHistorySizes configures
MaxLayoutOps == 7    \* handler invocations explored by SpecLayout

(***************************************************************************)
(* Program constants                                                       *)
(***************************************************************************)
MAX_HISTORY_SIZE == 20

(***************************************************************************)
(* JavaScript values                                                       *)
(***************************************************************************)
Null == [isNull |-> TRUE]

\* object spread  { ...a, ...b }
Merge(a, b) ==
  [k \in (DOMAIN a) \cup (DOMAIN b) |-> IF k \in DOMAIN b THEN b[k] ELSE a[k]]

Min(a, b) == IF a < b THEN a ELSE b
Max(a, b) == IF a > b THEN a ELSE b

\* Array.prototype.slice(start, end): negative indices count from the end,
\* both are clamped to [0, length]; indices are 0-based, end is exclusive.
SliceIndex(len, i) == IF i < 0 THEN Max(len + i, 0) ELSE Min(i, len)

Slice(s, start, end) ==
  LET from == SliceIndex(Len(s), start)
      to   == SliceIndex(Len(s), end)
  IN  IF to <= from THEN <<>> ELSE SubSeq(s, from + 1, to)

\* Array.prototype.slice(start)
SliceFrom(s, start) == Slice(s, start, Len(s))

\* Array.prototype.includes
Includes(s, x) == \E i \in 1..Len(s) : s[i] = x

\* a || b on numbers (0 is falsy) and on strings ('' is falsy)
OrNum(v, d) == IF v = 0 THEN d ELSE v

OrStr(v, d) == IF v = "" THEN d ELSE v

(***************************************************************************)
(* Editor store (store/editorSlice)                                        *)
(***************************************************************************)
\* the files the model lets the user pick or drop: a PNG of exactly the
\* largest size allowed, a GIF, and a PNG one byte over the limit
UploadFiles ==
  { [name |-> "a.png",   type |-> "image/png", size |-> 10485760],
    [name |-> "a.gif",   type |-> "image/gif", size |-> 1048576],
    [name |-> "big.png", type |-> "image/png", size |-> 10485761] }

\* FileReader.readAsDataURL and the Image decoded from it: every file of the
\* model holds the same 400x300 picture
DecodedImage(file) ==
  [ url |-> "data:imgA", file |-> file,
    dimensions |-> [width |-> 400, height |-> 300, aspectRatio |-> <<400, 300>>] ]

Images == { DecodedImage(file) : file \in UploadFiles }

initialState ==
  [ backgroundImage  |-> Null,
    textLayers       |-> <<>>,
    selectedLayerIds |-> <<>>,
    canvasDimensions |-> [width |-> 800, height |-> 600] ]

DefaultLayer ==
  [ text |-> "New Text", fontFamily |-> "Arial", fontSize |-> 24,
    fontWeight |-> "normal", color |-> "#000000", opacity |-> 100,
    textAlign |-> "left", top |-> 100, left |-> 100, width |-> 200,
    height |-> 50, angle |-> 0, scaleX |-> 100, scaleY |-> 100,
    lineHeight |-> 120, charSpacing |-> 0 ]

LayerIds(layers) == { layers[i].id : i \in 1..Len(layers) }

setBackgroundImage(d, image) == Merge(d, [backgroundImage |-> image])

setCanvasDimensions(d, width, height) ==
  Merge(d, [canvasDimensions |-> [width |-> width, height |-> height]])

\* { id, ...defaults, ...layer }: a layer argument carrying an id overrides id
addTextLayer(d, id, layer) ==
  Merge(d, [ textLayers |-> Append(d.textLayers,
                                   Merge(Merge([id |-> id], DefaultLayer), layer)),
             selectedLayerIds |-> <<id>> ])

updateTextLayer(d, id, properties) ==
  Merge(d, [ textLayers |->
    [ i \in 1..Len(d.textLayers) |->
        IF d.textLayers[i].id = id THEN Merge(d.textLayers[i], properties)
        ELSE d.textLayers[i] ] ])

\* deleteTextLayer that forgets to prune the selection
deleteTextLayer_keepsSelection(d, id) ==
  LET KeepLayer(l) == l.id # id
  IN  Merge(d, [textLayers |-> SelectSeq(d.textLayers, KeepLayer)])

deleteTextLayer(d, id) ==
  LET KeepLayer(l) == l.id # id
      KeepId(x)    == x # id
  IN  Merge(d, [ textLayers       |-> SelectSeq(d.textLayers, KeepLayer),
                 selectedLayerIds |-> SelectSeq(d.selectedLayerIds, KeepId) ])

\* !layer.locked with locked possibly undefined
IsLocked(l) == "locked" \in DOMAIN l /\ l.locked

toggleLayerLock(d, id) ==
  Merge(d, [ textLayers |->
    [ i \in 1..Len(d.textLayers) |->
        IF d.textLayers[i].id = id
        THEN Merge(d.textLayers[i], [locked |-> ~IsLocked(d.textLayers[i])])
        ELSE d.textLayers[i] ] ])

selectLayer(d, id) == Merge(d, [selectedLayerIds |-> <<id>>])

selectMultipleLayers(d, ids) == Merge(d, [selectedLayerIds |-> ids])

deselectAllLayers(d) == Merge(d, [selectedLayerIds |-> <<>>])

\* textLayers.findIndex((layer) => layer.id === id): 0-based, -1 when absent
IndexOfId(layers, id) ==
  IF \E i \in 1..Len(layers) : layers[i].id = id
  THEN (CHOOSE i \in 1..Len(layers) :
          layers[i].id = id /\ \A j \in 1..(i - 1) : layers[j].id # id) - 1
  ELSE -1

LayerIndex(d, id) == IndexOfId(d.textLayers, id)

Swap(s, i, j) ==
  [ k \in 1..Len(s) |-> IF k = i THEN s[j] ELSE IF k = j THEN s[i] ELSE s[k] ]

moveLayerUp(d, id) ==
  LET index == LayerIndex(d, id)
  IN  IF index = -1 \/ index = Len(d.textLayers) - 1 THEN d
      ELSE Merge(d, [textLayers |-> Swap(d.textLayers, index + 1, index + 2)])

moveLayerDown(d, id) ==
  LET index == LayerIndex(d, id)
  IN  IF index <= 0 THEN d
      ELSE Merge(d, [textLayers |-> Swap(d.textLayers, index + 1, index)])

moveLayerToTop(d, id) ==
  LET index == LayerIndex(d, id)
  IN  IF index = -1 \/ index = Len(d.textLayers) - 1 THEN d
      ELSE Merge(d, [textLayers |->
             Slice(d.textLayers, 0, index) \o SliceFrom(d.textLayers, index + 1)
               \o <<d.textLayers[index + 1]>>])

moveLayerToBottom(d, id) ==
  LET index == LayerIndex(d, id)
  IN  IF index <= 0 THEN d
      ELSE Merge(d, [textLayers |->
             <<d.textLayers[index + 1]>> \o Slice(d.textLayers, 0, index)
               \o SliceFrom(d.textLayers, index + 1)])

resetEditor(d) == Merge(d, initialState)

\* set(state): a shallow merge of every key the argument carries
importState(d, state) == Merge(d, state)

(***************************************************************************)
(* Layout helpers of Home (pages/index.tsx)                                *)
(***************************************************************************)
\* textLayers.filter(layer => selectedLayerIds.includes(layer.id))
SelectedLayers(d) ==
  LET IsSelected(l) == Includes(d.selectedLayerIds, l.id)
  IN  SelectSeq(d.textLayers, IsSelected)

\* selectedLayers.sort((a, b) => a.left - b.left): a stable sort
RECURSIVE InsertByLeft(_, _)
InsertByLeft(sorted, l) ==
  IF sorted = <<>> THEN << l >>
  ELSE IF sorted[Len(sorted)].left <= l.left THEN Append(sorted, l)
  ELSE Append(InsertByLeft(SubSeq(sorted, 1, Len(sorted) - 1), l), sorted[Len(sorted)])

RECURSIVE SortByLeft(_)
SortByLeft(layers) ==
  IF layers = <<>> THEN <<>>
  ELSE InsertByLeft(SortByLeft(SubSeq(layers, 1, Len(layers) - 1)), layers[Len(layers)])

\* applySmartSpacing returns before it writes anything
SpacingReturnsEarly(d) ==
  Len(d.selectedLayerIds) < 2 \/ Len(SelectedLayers(d)) < 2

\* selectedLayers.forEach((layer, index) => updateTextLayer(layer.id, ...))
RECURSIVE SpaceEach(_, _, _, _, _)
SpaceEach(d, selectedLayers, leftmostPos, spacing, index) ==
  IF index >= Len(selectedLayers) THEN d
  ELSE SpaceEach(updateTextLayer(d, selectedLayers[index + 1].id,
                                 [left |-> leftmostPos + spacing * index]),
                 selectedLayers, leftmostPos, spacing, index + 1)

\* the smart spacing that spreads the layers over their current spread,
\* however small
SmartSpacing_keepsSpread(d) ==
  IF SpacingReturnsEarly(d) THEN d
  ELSE LET selectedLayers == SortByLeft(SelectedLayers(d))
           leftmostPos    == selectedLayers[1].left
           rightmostPos   == selectedLayers[Len(selectedLayers)].left
           currentSpread  == rightmostPos - leftmostPos
           spacing        == currentSpread \div (Len(selectedLayers) - 1)
       IN  SpaceEach(d, selectedLayers, leftmostPos, spacing, 0)

\* applySmartSpacing: the editor store after the updates.  The quotient is
\* a whole number for every arrangement the model reaches.
SmartSpacing(d) ==
  IF SpacingReturnsEarly(d) THEN d
  ELSE LET selectedLayers == SortByLeft(SelectedLayers(d))
           leftmostPos    == selectedLayers[1].left
           rightmostPos   == selectedLayers[Len(selectedLayers)].left
           currentSpread  == rightmostPos - leftmostPos
           minSpread      == Max(100, currentSpread)
           spacing        == minSpread \div (Len(selectedLayers) - 1)
       IN  SpaceEach(d, selectedLayers, leftmostPos, spacing, 0)

NudgeDirections == {"ArrowUp", "ArrowDown", "ArrowLeft", "ArrowRight"}

Abs(x) == IF x < 0 THEN -x ELSE x

\* the position nudgeSelectedLayers gives one layer, safeguard included
NudgedPosition(layer, direction, distance) ==
  LET newLeft == CASE direction = "ArrowLeft"  -> layer.left - distance
                   [] direction = "ArrowRight" -> layer.left + distance
                   [] OTHER                    -> layer.left
      newTop  == CASE direction = "ArrowUp"   -> layer.top - distance
                   [] direction = "ArrowDown" -> layer.top + distance
                   [] OTHER                   -> layer.top
      deltaX  == Abs(newLeft - layer.left)
      deltaY  == Abs(newTop - layer.top)
  IN  IF deltaX > distance * 2 \/ deltaY > distance * 2
      THEN [ left |-> layer.left + (IF direction = "ArrowLeft" THEN -distance
                                    ELSE IF direction = "ArrowRight" THEN distance ELSE 0),
             top  |-> layer.top + (IF direction = "ArrowUp" THEN -distance
                                   ELSE IF direction = "ArrowDown" THEN distance ELSE 0) ]
      ELSE [left |-> newLeft, top |-> newTop]

\* selectedLayerIds.forEach(layerId => ...): every layer is read from the
\* textLayers Home rendered, the updates go to the store one by one
RECURSIVE NudgeEach(_, _, _, _, _)
NudgeEach(d, rendered, direction, distance, i) ==
  IF i > Len(rendered.selectedLayerIds) THEN d
  ELSE LET layerId == rendered.selectedLayerIds[i]
       IN  IF layerId \notin { rendered.textLayers[k].id : k \in 1..Len(rendered.textLayers) }
           THEN NudgeEach(d, rendered, direction, distance, i + 1)
           ELSE LET layer == rendered.textLayers[
                               CHOOSE k \in 1..Len(rendered.textLayers) :
                                 /\ rendered.textLayers[k].id = layerId
                                 /\ \A j \in 1..(k - 1) : rendered.textLayers[j].id # layerId ]
                IN  NudgeEach(updateTextLayer(d, layerId,
                                              NudgedPosition(layer, direction, distance)),
                              rendered, direction, distance, i + 1)

NudgeSelectedLayers(d, direction, distance) == NudgeEach(d, d, direction, distance, 1)

\* `Nudged ${selectedLayerIds.length} layer(s)`
NudgeDescription(n) ==
  CASE n = 1 -> "Nudged 1 layer(s)"
    [] n = 2 -> "Nudged 2 layer(s)"
    [] n = 3 -> "Nudged 3 layer(s)"
    [] OTHER -> "Nudged 4 layer(s)"

(***************************************************************************)
(* History store (store/historySlice)                                      *)
(***************************************************************************)
\* what a File becomes through JSON: the object {} without the File's
\* name, type and size
SerialisedFile == [json |-> "{}"]

\* JSON.parse(JSON.stringify(getState())): the store's action functions are
\* dropped, a File serialises to {}, everything else is copied.
JsonClone(state) ==
  [ backgroundImage  |-> IF state.backgroundImage = Null THEN Null
                         ELSE Merge(state.backgroundImage, [file |-> SerialisedFile]),
    textLayers       |-> state.textLayers,
    selectedLayerIds |-> state.selectedLayerIds,
    canvasDimensions |-> state.canvasDimensions ]

historyInitialState ==
  [ past |-> <<>>, present |-> Null, future |-> <<>>,
    maxHistorySize |-> MAX_HISTORY_SIZE ]

\* pushHistory that leaves future as it was
pushHistory_keepsFuture(h, description, state, timestamp) ==
  LET newAction == [ timestamp   |-> timestamp,
                     description |-> description,
                     state       |-> JsonClone(state) ]
      newPast == IF h.present # Null
                 THEN SliceFrom(Append(h.past, h.present), -h.maxHistorySize + 1)
                 ELSE h.past
  IN  Merge(h, [past |-> newPast, present |-> newAction])

\* pushHistory that keeps maxHistorySize entries in past: slice(-maxHistorySize)
pushHistory_sliceOffByOne(h, description, state, timestamp) ==
  LET newAction == [ timestamp   |-> timestamp,
                     description |-> description,
                     state       |-> JsonClone(state) ]
      newPast == IF h.present # Null
                 THEN SliceFrom(Append(h.past, h.present), -h.maxHistorySize)
                 ELSE h.past
  IN  Merge(h, [past |-> newPast, present |-> newAction, future |-> <<>>])

\* pushHistory that tests past.length instead of present
pushHistory_testsPast(h, description, state, timestamp) ==
  LET newAction == [ timestamp   |-> timestamp,
                     description |-> description,
                     state       |-> JsonClone(state) ]
      newPast == IF Len(h.past) > 0
                 THEN SliceFrom(Append(h.past, h.present), -h.maxHistorySize + 1)
                 ELSE h.past
  IN  Merge(h, [past |-> newPast, present |-> newAction, future |-> <<>>])

pushHistory(h, description, state, timestamp) ==
  LET newAction == [ timestamp   |-> timestamp,
                     description |-> description,
                     state       |-> JsonClone(state) ]
      newPast == IF h.present # Null
                 THEN SliceFrom(Append(h.past, h.present), -h.maxHistorySize + 1)
                 ELSE h.past
  IN  Merge(h, [past |-> newPast, present |-> newAction, future |-> <<>>])

\* undo that applies the entry it leaves instead of the one it reaches
undo_importsPresent(h, d) ==
  IF Len(h.past) = 0 \/ h.present = Null THEN [hist |-> h, doc |-> d]
  ELSE LET previous == h.past[Len(h.past)]
           newPast  == Slice(h.past, 0, Len(h.past) - 1)
       IN  [ doc  |-> importState(d, h.present.state),
             hist |-> Merge(h, [ past    |-> newPast,
                                 present |-> previous,
                                 future  |-> <<h.present>> \o h.future ]) ]

\* undo that re-applies the present snapshot when there is nothing to undo
undo_reappliesAtBoundary(h, d) ==
  IF h.present = Null THEN [hist |-> h, doc |-> d]
  ELSE IF Len(h.past) = 0 THEN [hist |-> h, doc |-> importState(d, h.present.state)]
  ELSE LET previous == h.past[Len(h.past)]
           newPast  == Slice(h.past, 0, Len(h.past) - 1)
       IN  [ doc  |-> importState(d, previous.state),
             hist |-> Merge(h, [ past    |-> newPast,
                                 present |-> previous,
                                 future  |-> <<h.present>> \o h.future ]) ]

\* undo that re-captures the editor state into the entry it moves to future
undo_recapturesPresent(h, d) ==
  IF Len(h.past) = 0 \/ h.present = Null THEN [hist |-> h, doc |-> d]
  ELSE LET previous == h.past[Len(h.past)]
           newPast  == Slice(h.past, 0, Len(h.past) - 1)
       IN  [ doc  |-> importState(d, previous.state),
             hist |-> Merge(h, [ past    |-> newPast,
                                 present |-> previous,
                                 future  |-> <<Merge(h.present, [state |-> JsonClone(d)])>>
                                               \o h.future ]) ]

\* undo and redo return the pair of stores: they write the editor store
\* through importState and then the history store
undo(h, d) ==
  IF Len(h.past) = 0 \/ h.present = Null THEN [hist |-> h, doc |-> d]
  ELSE LET previous == h.past[Len(h.past)]
           newPast  == Slice(h.past, 0, Len(h.past) - 1)
       IN  [ doc  |-> importState(d, previous.state),
             hist |-> Merge(h, [ past    |-> newPast,
                                 present |-> previous,
                                 future  |-> <<h.present>> \o h.future ]) ]

\* redo that does not put the entry it leaves back into past
redo_dropsPresent(h, d) ==
  IF Len(h.future) = 0 THEN [hist |-> h, doc |-> d]
  ELSE LET next      == h.future[1]
           newFuture == SliceFrom(h.future, 1)
       IN  [ doc  |-> importState(d, next.state),
             hist |-> Merge(h, [present |-> next, future |-> newFuture]) ]

redo(h, d) ==
  IF Len(h.future) = 0 THEN [hist |-> h, doc |-> d]
  ELSE LET next      == h.future[1]
           newFuture == SliceFrom(h.future, 1)
       IN  [ doc  |-> importState(d, next.state),
             hist |-> Merge(h, [ past    |-> IF h.present # Null
                                             THEN Append(h.past, h.present)
                                             ELSE h.past,
                                 present |-> next,
                                 future  |-> newFuture ]) ]

\* canUndo that looks at present instead of past
canUndo_testsPresent(h) == h.present # Null

canUndo(h) == Len(h.past) > 0

canRedo(h) == Len(h.future) > 0

\* for (let i = 0; i < steps; i++) undo()   /   ... redo()
RECURSIVE UndoTimes(_, _, _)
UndoTimes(h, d, steps) ==
  IF steps <= 0 THEN [hist |-> h, doc |-> d]
  ELSE LET r == undo(h, d) IN UndoTimes(r.hist, r.doc, steps - 1)

RECURSIVE RedoTimes(_, _, _)
RedoTimes(h, d, steps) ==
  IF steps <= 0 THEN [hist |-> h, doc |-> d]
  ELSE LET r == redo(h, d) IN RedoTimes(r.hist, r.doc, steps - 1)

clearHistory(h) == Merge(h, historyInitialState)

(***************************************************************************)
(* Fabric canvas (components/Canvas/Canvas.tsx)                            *)
(***************************************************************************)
\* obj.type === 'textbox' && obj.layerId
IsTagged(o) == o.type = "textbox" /\ "layerId" \in DOMAIN o

TaggedIds(objects) ==
  { objects[i].layerId : i \in { j \in 1..Len(objects) : IsTagged(objects[j]) } }

\* what fabric.Textbox leaves at its defaults when the options omit them
FabricTextboxDefaults ==
  [ type |-> "textbox", angle |-> 0, scaleX |-> 100, scaleY |-> 100,
    lineHeight |-> 116, charSpacing |-> 0, fontWeight |-> "normal",
    textAlign |-> "left" ]

\* new fabric.Textbox(layer.text, {...}) of the layer sync effect
NewTextbox(layer) ==
  Merge(FabricTextboxDefaults,
    [ layerId     |-> layer.id,
      text        |-> layer.text,
      left        |-> layer.left,
      top         |-> layer.top,
      fontSize    |-> OrNum(layer.fontSize, 24),
      fill        |-> OrStr(layer.color, "#000000"),
      fontFamily  |-> OrStr(layer.fontFamily, "Arial"),
      width       |-> OrNum(layer.width, 200),
      opacity     |-> OrNum(layer.opacity, 100),
      lineHeight  |-> OrNum(layer.lineHeight, 120),
      charSpacing |-> OrNum(layer.charSpacing, 0),
      visible     |-> TRUE,
      selectable  |-> ~IsLocked(layer),
      evented     |-> ~IsLocked(layer) ])

\* the two existingObj.set({...}) calls of the layer sync effect
UpdateTextbox(o, layer) ==
  Merge(o,
    [ text        |-> layer.text,
      fontSize    |-> OrNum(layer.fontSize, 24),
      fill        |-> OrStr(layer.color, "#000000"),
      fontFamily  |-> OrStr(layer.fontFamily, "Arial"),
      opacity     |-> OrNum(layer.opacity, 100),
      lineHeight  |-> OrNum(layer.lineHeight, 120),
      charSpacing |-> OrNum(layer.charSpacing, 0),
      visible     |-> TRUE,
      selectable  |-> ~IsLocked(layer),
      evented     |-> ~IsLocked(layer),
      left        |-> layer.left,
      top         |-> layer.top ])

\* the lookup with the class name 'Textbox' where obj.type is 'textbox'
HasExisting_wrongType(existing, layer) ==
  \E i \in 1..Len(existing) :
    existing[i].type = "Textbox" /\ existing[i].layerId = layer.id

\* does the layer have an object among those found at the start of the pass
HasExisting(existing, layer) ==
  \E i \in 1..Len(existing) : existing[i].layerId = layer.id

\* textLayers.forEach of the layer sync effect, from layer i on; existing is
\* the list of tagged objects taken before the pass changed anything
RECURSIVE SyncEach(_, _, _, _)
SyncEach(objects, existing, layers, i) ==
  IF i > Len(layers) THEN [objects |-> objects, created |-> 0]
  ELSE LET layer == layers[i]
       IN  IF ~HasExisting(existing, layer)
           THEN LET rest == SyncEach(Append(objects, NewTextbox(layer)),
                                     existing, layers, i + 1)
                IN  [objects |-> rest.objects, created |-> rest.created + 1]
           ELSE LET at == CHOOSE k \in 1..Len(objects) :
                               /\ IsTagged(objects[k]) /\ objects[k].layerId = layer.id
                               /\ \A j \in 1..(k - 1) :
                                    ~(IsTagged(objects[j]) /\ objects[j].layerId = layer.id)
                IN  SyncEach([objects EXCEPT ![at] = UpdateTextbox(objects[at], layer)],
                             existing, layers, i + 1)

\* one pass of the layer sync effect over the canvas objects
SyncLayers(objects, layers) ==
  LET existing  == SelectSeq(objects, IsTagged)
      Stays(o)  == ~(IsTagged(o) /\ o.layerId \notin LayerIds(layers))
      kept      == SelectSeq(objects, Stays)
      res       == SyncEach(kept, existing, layers, 1)
  IN  [ objects |-> res.objects,
        created |-> res.created,
        removed |-> Len(objects) - Len(kept) ]

\* new fabric.Textbox(layer.text, {...}) of the Image.fromURL callback
ReAddedTextbox(layer) ==
  Merge(FabricTextboxDefaults,
    [ layerId     |-> layer.id,
      text        |-> layer.text,
      left        |-> layer.left,
      top         |-> layer.top,
      fontSize    |-> OrNum(layer.fontSize, 24),
      fill        |-> OrStr(layer.color, "#000000"),
      fontFamily  |-> OrStr(layer.fontFamily, "Arial"),
      width       |-> OrNum(layer.width, 200),
      opacity     |-> OrNum(layer.opacity, 100),
      visible     |-> TRUE,
      selectable  |-> ~IsLocked(layer),
      evented     |-> ~IsLocked(layer) ])

\* the Image.fromURL(...).then callback: clear, add the image, re-add the
\* text layers the effect closed over
ImageLoadedObjects(load) ==
  << [ type |-> "image", url |-> load.url, left |-> 0, top |-> 0,
       selectable |-> FALSE, evented |-> FALSE ] >>
  \o [ i \in 1..Len(load.textLayers) |-> ReAddedTextbox(load.textLayers[i]) ]

(***************************************************************************)
(* Font store (store/fontSlice) and font files (utils/fontUtils)           *)
(***************************************************************************)
\* the font files the model lets the user pick or drop
FontFiles ==
  { [name |-> "Foo.ttf",   type |-> "font/ttf",   size |-> 1024],
    [name |-> "foo.otf",   type |-> "",           size |-> 2048],
    [name |-> "Bar.woff",  type |-> "font/woff",  size |-> 4096],
    [name |-> "notes.txt", type |-> "text/plain", size |-> 16] }

\* file.name.toLowerCase().endsWith(ext), for the names of FontFiles
NameEndsWith(name, ext) ==
  \/ name = "Foo.ttf" /\ ext = ".ttf"
  \/ name = "foo.otf" /\ ext = ".otf"
  \/ name = "Bar.woff" /\ ext = ".woff"

fontValidTypes ==
  << "font/ttf", "font/truetype", "font/otf", "font/opentype", "font/woff",
     "font/woff2", "application/font-woff", "application/font-woff2",
     "application/x-font-ttf", "application/x-font-truetype",
     "application/x-font-opentype" >>

validExtensions == << ".ttf", ".otf", ".woff", ".woff2" >>

fontMaxSize == 5 * 1024 * 1024

\* validateFontFile(file).isValid
validateFontFile(file) ==
  LET hasValidMimeType  == \E i \in 1..Len(fontValidTypes) : fontValidTypes[i] = file.type
      hasValidExtension == \E i \in 1..Len(validExtensions) :
                             NameEndsWith(file.name, validExtensions[i])
  IN  /\ ~(~hasValidMimeType /\ ~hasValidExtension)
      /\ ~(file.size > fontMaxSize)

\* getFontFormat, for the names of FontFiles
getFontFormat(file) ==
  IF NameEndsWith(file.name, ".woff2") THEN "woff2"
  ELSE IF NameEndsWith(file.name, ".woff") THEN "woff"
  ELSE IF NameEndsWith(file.name, ".otf") THEN "opentype"
  ELSE "truetype"

\* extractFontFamilyName: the extension is cut off, separators become
\* spaces and every word is capitalised; for the names of FontFiles
extractFontFamilyName(fileName) ==
  CASE fileName = "Foo.ttf"   -> "Foo"
    [] fileName = "foo.otf"   -> "Foo"
    [] fileName = "Bar.woff"  -> "Bar"
    [] fileName = "notes.txt" -> "Notes.txt"

\* createCustomFontFromFile; id stands for `custom-${Date.now()}-${random}`
createCustomFontFromFile(file, id) ==
  [ id |-> id, name |-> extractFontFamilyName(file.name),
    family |-> extractFontFamilyName(file.name), file |-> file,
    format |-> getFontFormat(file), isLoaded |-> FALSE ]

fontInitialState == [customFonts |-> <<>>, loadingFonts |-> {}]

\* customFonts.findIndex((f) => f.family === family): 0-based, -1 if absent
IndexOfFamily(customFonts, family) ==
  IF \E i \in 1..Len(customFonts) : customFonts[i].family = family
  THEN (CHOOSE i \in 1..Len(customFonts) :
          /\ customFonts[i].family = family
          /\ \A j \in 1..(i - 1) : customFonts[j].family # family) - 1
  ELSE -1

addCustomFont(fs, font) ==
  LET existingIndex == IndexOfFamily(fs.customFonts, font.family)
  IN  IF existingIndex >= 0
      THEN [fs EXCEPT !.customFonts = [fs.customFonts EXCEPT ![existingIndex + 1] = font]]
      ELSE [fs EXCEPT !.customFonts = Append(fs.customFonts, font)]

removeCustomFont(fs, fontId) ==
  LET Other(f) == f.id # fontId
  IN  [ customFonts  |-> SelectSeq(fs.customFonts, Other),
        loadingFonts |-> fs.loadingFonts \ {fontId} ]

updateFontLoadStatus(fs, fontId, isLoaded) ==
  [ customFonts  |-> [ i \in 1..Len(fs.customFonts) |->
                         IF fs.customFonts[i].id = fontId
                         THEN [fs.customFonts[i] EXCEPT !.isLoaded = isLoaded]
                         ELSE fs.customFonts[i] ],
    loadingFonts |-> fs.loadingFonts \ {fontId} ]

setFontLoading(fs, fontId, isLoading) ==
  [fs EXCEPT !.loadingFonts = IF isLoading THEN fs.loadingFonts \cup {fontId}
                              ELSE fs.loadingFonts \ {fontId}]

clearAllCustomFonts(fs) == [customFonts |-> <<>>, loadingFonts |-> {}]

\* getFontByFamily(family) is not undefined
HasFontOfFamily(fs, family) == IndexOfFamily(fs.customFonts, family) >= 0

(***************************************************************************)
(* State                                                                   *)
(***************************************************************************)
VARIABLES
  doc,             \* editor store: backgroundImage, textLayers, selectedLayerIds, canvasDimensions
  hist,            \* history store: past, present, future, maxHistorySize
  canvas,          \* objects of the live fabric canvas, bottom first
  pendingLoad,     \* Image.fromURL in flight for the live canvas, with its closure
  timers,          \* pending deferred pushHistory calls, oldest first: message, and the
                   \* editor state the scheduling edit produced
  savedState,      \* the autosave snapshot in local storage
  autosavePending, \* the autosave timer is armed
  now,             \* Date.now()
  nextId,          \* the next id nanoid() returns
  nOps,            \* handler invocations so far
  lastOp,          \* the handler that ran last
  pushRun,         \* pushes since the empty history, while only pushes (then undos) ran; 0: not tracked
  undoRun,         \* undo() calls made after those pushes
  syncStat,        \* last layer sync pass: ran, created, removed, run (passes in a row on the same layers)
  canvasSize,      \* width and height of the live fabric canvas
  exportCanvas,    \* the canvas ExportButton holds: canvasRef.current as Home last rendered it
  isUploading,     \* ImageUploader's isUploading state
  toast,           \* title of the toast shown last
  fonts,           \* font store: customFonts, loadingFonts
  fontJobs,        \* processFile calls of CustomFontUpload awaiting loadCustomFont
  fontUploading,   \* CustomFontUpload's isUploading state
  nextFontId,      \* the next custom font id
  lastFont,        \* the font upload that finished last, with the list it started from
  lastClick        \* the history panel entry clicked by the last handler: type, index

vars == << doc, hist, canvas, pendingLoad, timers, savedState, autosavePending,
           now, nextId, nOps, lastOp, pushRun, undoRun, syncStat,
           canvasSize, exportCanvas, isUploading, toast,
           fonts, fontJobs, fontUploading, nextFontId, lastFont, lastClick >>

\* the state behind the font panel, and the editor's state but the toast
fontVars == << fonts, fontJobs, fontUploading, nextFontId, lastFont >>

editorVars == << doc, hist, canvas, pendingLoad, timers, savedState, autosavePending,
                 now, nextId, nOps, lastOp, pushRun, undoRun, syncStat,
                 canvasSize, exportCanvas, isUploading, lastClick >>

NoClick == [type |-> "none", index |-> 0]

NoFontOp == [op |-> "none", id |-> 0, before |-> <<>>, alone |-> FALSE]

NoSync == [ran |-> FALSE, created |-> 0, removed |-> 0, run |-> 0]

\* everything but the history store
InitEditor ==
  /\ doc = initialState
  /\ canvas = <<>>
  /\ pendingLoad = Null
  /\ timers = <<>>
  /\ savedState = Null
  /\ autosavePending = TRUE
  /\ now = 0
  /\ nextId = 1
  /\ nOps = 0
  /\ lastOp = "init"
  /\ pushRun = 0
  /\ undoRun = 0
  /\ syncStat = NoSync
  /\ canvasSize = initialState.canvasDimensions
  /\ exportCanvas = Null
  /\ isUploading = FALSE
  /\ toast = Null
  /\ fonts = fontInitialState
  /\ fontJobs = {}
  /\ fontUploading = FALSE
  /\ nextFontId = 1
  /\ lastFont = NoFontOp
  /\ lastClick = NoClick

Init ==
  /\ InitEditor
  /\ hist = historyInitialState

(***************************************************************************)
(* Effects that run after a handler's store updates are rendered           *)
(***************************************************************************)
\* Home renders, handing ExportButton the canvas canvasRef.current holds at
\* that moment; then the effects run: the Canvas creation effect (deps
\* canvasDimensions, backgroundImage), the layer sync effect (deps
\* textLayers) and the autosave effect (deps all three).  base is the canvas
\* the handler left; canvasCh and layersCh tell whether the dependency's
\* reference changed.
Effects(base, d1, layersCh, canvasCh) ==
  LET fresh  == IF canvasCh THEN <<>> ELSE base
      pass   == IF layersCh THEN SyncLayers(fresh, d1.textLayers)
                ELSE [objects |-> fresh, created |-> 0, removed |-> 0]
  IN  /\ canvas' = pass.objects
      /\ pendingLoad' =
           IF canvasCh
           THEN IF d1.backgroundImage # Null
                THEN [url |-> d1.backgroundImage.url, textLayers |-> d1.textLayers]
                ELSE Null
           ELSE pendingLoad
      /\ syncStat' =
           IF layersCh
           THEN [ ran |-> TRUE, created |-> pass.created, removed |-> pass.removed,
                  run |-> IF syncStat.ran /\ ~canvasCh /\ d1.textLayers = doc.textLayers
                          THEN Min(syncStat.run + 1, 2) ELSE 1 ]
           ELSE NoSync
      /\ autosavePending' = IF layersCh \/ canvasCh THEN TRUE ELSE autosavePending
      /\ exportCanvas' = canvasSize
      /\ canvasSize' = IF canvasCh THEN d1.canvasDimensions ELSE canvasSize

\* set() with objects taken from elsewhere: the reference differs when the
\* content does; with equal content it may or may not be the same object
RefChange(old, new) == IF old # new THEN {TRUE} ELSE BOOLEAN

\* a render none of whose effects has a changed dependency
NoEffects ==
  /\ UNCHANGED << canvas, pendingLoad, autosavePending, canvasSize >>
  /\ exportCanvas' = canvasSize
  /\ syncStat' = NoSync

\* no store was written: nothing renders
NoRender ==
  /\ UNCHANGED << canvas, pendingLoad, autosavePending, canvasSize, exportCanvas >>
  /\ syncStat' = NoSync

(***************************************************************************)
(* Bookkeeping of the run counters                                         *)
(***************************************************************************)
HistoryEmpty(h) == h.present = Null /\ h.past = <<>> /\ h.future = <<>>

AfterPush ==
  /\ pushRun' = IF HistoryEmpty(hist) THEN 1
                ELSE IF pushRun >= 1 /\ undoRun = 0 /\ pushRun < PushRunCap
                     THEN pushRun + 1 ELSE 0
  /\ undoRun' = 0

AfterUndo ==
  /\ pushRun' = IF undoRun < PushRunCap THEN pushRun ELSE 0
  /\ undoRun' = IF pushRun >= 1 /\ undoRun < PushRunCap THEN undoRun + 1 ELSE 0

AfterRedo == pushRun' = 0 /\ undoRun' = 0

AfterOther == UNCHANGED << pushRun, undoRun >>

(***************************************************************************)
(* Handlers                                                                *)
(***************************************************************************)
validTypes == << "image/png", "image/jpeg", "image/jpg", "image/webp" >>

maxSize == 10 * 1024 * 1024

\* processFile's validation that lets a file of any size through
FileAccepted_ignoresSize(file) == Includes(validTypes, file.type)

\* processFile's validation: neither early return is taken
FileAccepted(file) ==
  /\ Includes(validTypes, file.type)
  /\ ~(file.size > maxSize)

\* the uploader is rendered only while there is no background image, and it
\* takes no file while isUploading is set
UploaderReady == doc.backgroundImage = Null /\ ~isUploading

\* ImageUploader.processFile, one of the two validation returns
UploadRejectedBody(file) ==
  /\ UploaderReady
  /\ ~FileAccepted(file)
  /\ isUploading' = TRUE
  /\ toast' = IF ~Includes(validTypes, file.type) THEN "Invalid file type"
              ELSE "File too large"
  /\ NoRender
  /\ AfterOther
  /\ lastOp' = "uploadRejected"
  /\ UNCHANGED << doc, hist, timers, savedState, now, nextId >>

\* what can go wrong after validation: reader.onerror, img.onerror
UploadErrors == { "Failed to read file", "Invalid image file" }

\* ImageUploader.processFile, the reader.onerror and img.onerror paths
UploadFailedBody(file, error) ==
  /\ UploaderReady
  /\ FileAccepted(file)
  /\ isUploading' = FALSE
  /\ toast' = error
  /\ NoRender
  /\ AfterOther
  /\ lastOp' = "uploadFailed"
  /\ UNCHANGED << doc, hist, timers, savedState, now, nextId >>

\* ImageUploader.processFile, the img.onload path
UploadImageBody(image) ==
  /\ UploaderReady
  /\ FileAccepted(image.file)
  /\ isUploading' = FALSE
  /\ toast' = "Image uploaded successfully"
  /\ LET d1 == setBackgroundImage(
                 setCanvasDimensions(doc, image.dimensions.width, image.dimensions.height),
                 image)
     IN  /\ doc' = d1
         /\ hist' = pushHistory(hist, "Uploaded background image", d1, now)
         /\ Effects(canvas, d1, FALSE, TRUE)
  /\ AfterPush
  /\ lastOp' = "uploadImage"
  /\ UNCHANGED << timers, savedState, now, nextId >>

\* LayerPanel is rendered only when there is a background image
LayerPanelShown == doc.backgroundImage # Null

HandleAddLayerBody ==
  /\ LayerPanelShown
  /\ nextId <= MaxIds
  /\ LET d1 == addTextLayer(doc, nextId, [text |-> "New Text", left |-> 100, top |-> 100])
     IN  /\ doc' = d1
         /\ hist' = pushHistory(hist, "Added text layer", d1, now)
         /\ Effects(canvas, d1, TRUE, FALSE)
  /\ nextId' = nextId + 1
  /\ AfterPush
  /\ lastOp' = "handleAddLayer"
  /\ UNCHANGED << timers, savedState, now, isUploading, toast >>

HandleDeleteLayerBody(id) ==
  /\ LayerPanelShown
  /\ id \in LayerIds(doc.textLayers)
  /\ LET d1 == deleteTextLayer(doc, id)
     IN  /\ doc' = d1
         /\ hist' = pushHistory(hist, "Deleted text layer", d1, now)
         /\ Effects(canvas, d1, TRUE, FALSE)
  /\ AfterPush
  /\ lastOp' = "handleDeleteLayer"
  /\ UNCHANGED << timers, savedState, now, nextId, isUploading, toast >>

Directions == {"up", "down", "top", "bottom"}

MoveLayer(d, id, direction) ==
  CASE direction = "up"     -> moveLayerUp(d, id)
    [] direction = "down"   -> moveLayerDown(d, id)
    [] direction = "top"    -> moveLayerToTop(d, id)
    [] direction = "bottom" -> moveLayerToBottom(d, id)

\* the move returns the state object itself when it has nothing to do
MoveReturnsState(d, id, direction) ==
  LET index == LayerIndex(d, id)
  IN  IF direction \in {"up", "top"}
      THEN index = -1 \/ index = Len(d.textLayers) - 1
      ELSE index <= 0

MoveDescription(direction) ==
  CASE direction = "up"     -> "Moved layer up"
    [] direction = "down"   -> "Moved layer down"
    [] direction = "top"    -> "Moved layer top"
    [] direction = "bottom" -> "Moved layer bottom"

HandleMoveLayerBody(id, direction) ==
  /\ LayerPanelShown
  /\ id \in LayerIds(doc.textLayers)
  /\ LET d1 == MoveLayer(doc, id, direction)
     IN  /\ doc' = d1
         /\ hist' = pushHistory(hist, MoveDescription(direction), d1, now)
         /\ Effects(canvas, d1, ~MoveReturnsState(doc, id, direction), FALSE)
  /\ AfterPush
  /\ lastOp' = "handleMoveLayer"
  /\ UNCHANGED << timers, savedState, now, nextId, isUploading, toast >>

\* textLayers.find(layer => layer.id === id)
FindLayer(layers, id) == layers[IndexOfId(layers, id) + 1]

\* const { id: originalId, ...layerWithoutId } = layerToDuplicate
WithoutId(layer) == [k \in (DOMAIN layer) \ {"id"} |-> layer[k]]

\* the duplicate built from the whole layer, id included
DuplicateArgument_keepsId(layerToDuplicate) ==
  Merge(layerToDuplicate,
        [left |-> layerToDuplicate.left + 20, top |-> layerToDuplicate.top + 20])

DuplicateArgument(layerToDuplicate) ==
  Merge(WithoutId(layerToDuplicate),
        [left |-> layerToDuplicate.left + 20, top |-> layerToDuplicate.top + 20])

HandleDuplicateLayerBody(id) ==
  /\ LayerPanelShown
  /\ id \in LayerIds(doc.textLayers)
  /\ nextId <= MaxIds
  /\ LET d1 == addTextLayer(doc, nextId, DuplicateArgument(FindLayer(doc.textLayers, id)))
     IN  /\ doc' = d1
         /\ hist' = pushHistory(hist, "Duplicated text layer", d1, now)
         /\ Effects(canvas, d1, TRUE, FALSE)
  /\ nextId' = nextId + 1
  /\ AfterPush
  /\ lastOp' = "handleDuplicateLayer"
  /\ UNCHANGED << timers, savedState, now, isUploading, toast >>

HandleToggleLockBody(id) ==
  /\ LayerPanelShown
  /\ id \in LayerIds(doc.textLayers)
  /\ LET d1 == toggleLayerLock(doc, id)
     IN  /\ doc' = d1
         /\ hist' = pushHistory(hist,
                      IF IsLocked(FindLayer(d1.textLayers, id))
                      THEN "Locked text layer" ELSE "Unlocked text layer",
                      d1, now)
         /\ Effects(canvas, d1, TRUE, FALSE)
  /\ AfterPush
  /\ lastOp' = "handleToggleLock"
  /\ UNCHANGED << timers, savedState, now, nextId, isUploading, toast >>

\* LayerItem.handleClick
Modifiers == {"none", "ctrl", "shift"}

ClickSelection(d, id, modifier) ==
  IF modifier = "ctrl"
  THEN IF Includes(d.selectedLayerIds, id)
       THEN LET Other(x) == x # id
            IN  selectMultipleLayers(d, SelectSeq(d.selectedLayerIds, Other))
       ELSE selectMultipleLayers(d, Append(d.selectedLayerIds, id))
  ELSE IF modifier = "shift" /\ Len(d.selectedLayerIds) > 0
       THEN LET lastSelectedId    == d.selectedLayerIds[Len(d.selectedLayerIds)]
                lastSelectedIndex == LayerIndex(d, lastSelectedId)
                currentIndex      == LayerIndex(d, id)
                startIndex        == Min(lastSelectedIndex, currentIndex)
                endIndex          == Max(lastSelectedIndex, currentIndex)
                range             == Slice(d.textLayers, startIndex, endIndex + 1)
            IN  selectMultipleLayers(d, [i \in 1..Len(range) |-> range[i].id])
       ELSE selectLayer(d, id)

LayerItemClickBody(id, modifier) ==
  /\ LayerPanelShown
  /\ id \in LayerIds(doc.textLayers)
  /\ doc' = ClickSelection(doc, id, modifier)
  /\ NoEffects
  /\ AfterOther
  /\ lastOp' = "layerItemClick"
  /\ UNCHANGED << hist, timers, savedState, now, nextId, isUploading, toast >>

\* TextProperties: the panel edits the layer whose id is selectedLayerIds[0]
HasSelectedLayer(d) ==
  Len(d.selectedLayerIds) > 0 /\ d.selectedLayerIds[1] \in LayerIds(d.textLayers)

\* property edits the model draws from: <<property, value, message>>
PropertyEdits ==
  { << "opacity", 0, "Updated opacity" >>, << "text", "Hello", "Updated text" >> }

\* TextProperties.handleChange: the update now, the push through debounce
HandleChangeBody(edit) ==
  /\ HasSelectedLayer(doc)
  /\ LET selectedLayer == FindLayer(doc.textLayers, doc.selectedLayerIds[1])
         d1 == updateTextLayer(doc, selectedLayer.id,
                               [k \in {edit[1]} |-> edit[2]])
     IN  /\ doc' = d1
         /\ Effects(canvas, d1, TRUE, FALSE)
  /\ timers' = Append(timers, [message |-> edit[3], edited |-> doc'])
  /\ AfterOther
  /\ lastOp' = "handleChange"
  /\ UNCHANGED << hist, savedState, now, nextId, isUploading, toast >>

\* the 100 ms timer of applySmartSpacing, told from the 500 ms debounce
\* timers by its message; a debounce timer armed after it fires after it
IsSpacingTimer(t) == t.message = "Applied smart spacing"

\* the debounced callback: pushHistory(message, useEditorStore.getState())
DebouncedPushFireBody ==
  /\ timers # <<>>
  /\ ~IsSpacingTimer(Head(timers))
  /\ hist' = pushHistory(hist, Head(timers).message, doc, now)
  /\ timers' = Tail(timers)
  /\ NoEffects
  /\ AfterPush
  /\ lastOp' = "debouncedPushHistory"
  /\ UNCHANGED << doc, savedState, now, nextId, isUploading, toast >>

\* the Space button, rendered while more than one layer is selected
ApplySmartSpacingBody ==
  /\ Len(doc.selectedLayerIds) > 1
  /\ LET d1 == SmartSpacing(doc)
     IN  /\ doc' = d1
         /\ IF SpacingReturnsEarly(doc)
            THEN NoRender /\ UNCHANGED timers
            ELSE /\ Effects(canvas, d1, TRUE, FALSE)
                 /\ timers' = Append(timers, [message |-> "Applied smart spacing",
                                              edited |-> d1])
  /\ AfterOther
  /\ lastOp' = "applySmartSpacing"
  /\ UNCHANGED << hist, savedState, now, nextId, isUploading, toast >>

\* the first smart spacing timer among the pending ones
FirstSpacingTimer(ts) == CHOOSE k \in 1..Len(ts) :
  IsSpacingTimer(ts[k]) /\ \A j \in 1..(k - 1) : ~IsSpacingTimer(ts[j])

\* the setTimeout callback of applySmartSpacing
SmartSpacingPushFireBody ==
  /\ \E k \in 1..Len(timers) : IsSpacingTimer(timers[k])
  /\ LET k == FirstSpacingTimer(timers)
     IN  timers' = SubSeq(timers, 1, k - 1) \o SubSeq(timers, k + 1, Len(timers))
  /\ hist' = pushHistory(hist, "Applied smart spacing", doc, now)
  /\ NoEffects
  /\ AfterPush
  /\ lastOp' = "smartSpacingPush"
  /\ UNCHANGED << doc, savedState, now, nextId, isUploading, toast >>

\* one of the four nudge buttons, rendered while a layer is selected
NudgeBody(direction) ==
  /\ Len(doc.selectedLayerIds) > 0
  /\ LET d1 == NudgeSelectedLayers(doc, direction, 5)
     IN  /\ doc' = d1
         /\ hist' = pushHistory(hist, NudgeDescription(Len(doc.selectedLayerIds)), d1, now)
         /\ Effects(canvas, d1,
                    \E i \in 1..Len(doc.selectedLayerIds) :
                      doc.selectedLayerIds[i] \in LayerIds(doc.textLayers),
                    FALSE)
  /\ AfterPush
  /\ lastOp' = "nudge"
  /\ UNCHANGED << timers, savedState, now, nextId, isUploading, toast >>

\* undo(): importState re-renders the editor when it ran
UndoBody ==
  /\ LET r == undo(hist, doc)
     IN  /\ doc' = r.doc
         /\ hist' = r.hist
         /\ IF Len(hist.past) = 0 \/ hist.present = Null
            THEN NoRender
            ELSE \E layersCh \in RefChange(doc.textLayers, r.doc.textLayers) :
                 \E canvasCh \in RefChange(
                      << doc.canvasDimensions, doc.backgroundImage >>,
                      << r.doc.canvasDimensions, r.doc.backgroundImage >>) :
                   Effects(canvas, r.doc, layersCh, canvasCh)
  /\ AfterUndo
  /\ lastOp' = "undo"
  /\ UNCHANGED << timers, savedState, now, nextId, isUploading, toast >>

RedoBody ==
  /\ LET r == redo(hist, doc)
     IN  /\ doc' = r.doc
         /\ hist' = r.hist
         /\ IF Len(hist.future) = 0
            THEN NoRender
            ELSE \E layersCh \in RefChange(doc.textLayers, r.doc.textLayers) :
                 \E canvasCh \in RefChange(
                      << doc.canvasDimensions, doc.backgroundImage >>,
                      << r.doc.canvasDimensions, r.doc.backgroundImage >>) :
                   Effects(canvas, r.doc, layersCh, canvasCh)
  /\ AfterRedo
  /\ lastOp' = "redo"
  /\ UNCHANGED << timers, savedState, now, nextId, isUploading, toast >>

\* HistoryPanel: the entries rendered, as <<type, index>>
HistoryItems(h) ==
  { << "past", index >> : index \in 0..(Len(h.past) - 1) }
    \cup (IF h.present # Null THEN { << "present", 0 >> } ELSE {})
    \cup { << "future", index >> : index \in 0..(Len(h.future) - 1) }

\* a click that stops one undo() short of the clicked past entry
HistoryItemClicked_stopsShort(h, d, type, index) ==
  IF type = "past" THEN UndoTimes(h, d, Len(h.past) - index - 1)
  ELSE IF type = "future" THEN RedoTimes(h, d, index + 1)
  ELSE [hist |-> h, doc |-> d]

\* HistoryPanel.renderHistoryItem onClick: the stores after the loop
HistoryItemClicked(h, d, type, index) ==
  IF type = "past" THEN UndoTimes(h, d, Len(h.past) - index)
  ELSE IF type = "future" THEN RedoTimes(h, d, index + 1)
  ELSE [hist |-> h, doc |-> d]

\* the click on an entry of the history panel; the importState calls of
\* the loop are rendered together
HistoryItemClickBody(type, index) ==
  /\ << type, index >> \in HistoryItems(hist)
  /\ LET r == HistoryItemClicked(hist, doc, type, index)
     IN  /\ doc' = r.doc
         /\ hist' = r.hist
         /\ IF r.hist = hist
            THEN NoRender
            ELSE \E layersCh \in RefChange(doc.textLayers, r.doc.textLayers) :
                 \E canvasCh \in RefChange(
                      << doc.canvasDimensions, doc.backgroundImage >>,
                      << r.doc.canvasDimensions, r.doc.backgroundImage >>) :
                   Effects(canvas, r.doc, layersCh, canvasCh)
  /\ lastClick' = [type |-> type, index |-> index]
  /\ pushRun' = 0
  /\ undoRun' = 0
  /\ lastOp' = "historyItemClick"
  /\ UNCHANGED << timers, savedState, now, nextId, isUploading, toast >>

(***************************************************************************)
(* Canvas events (the user acts on an object of the live canvas)           *)
(***************************************************************************)
\* objects the user can grab: tagged and evented
Grabbable == { i \in 1..Len(canvas) : IsTagged(canvas[i]) /\ canvas[i].evented }

\* where a gesture leaves an object
Moves == { [left |-> 150, top |-> 120] }

Transforms ==
  { [left |-> 150, top |-> 120, scaleX |-> 150, scaleY |-> 150, angle |-> 45] }

TypedTexts == { "Hello" }

\* an 'object:moved' handler that pushes the state before it updates the layer
ObjectMovedBody_pushesFirst(i, g) ==
  /\ i \in Grabbable
  /\ LET obj == Merge(canvas[i], g)
         d1  == updateTextLayer(doc, obj.layerId, [left |-> obj.left, top |-> obj.top])
     IN  /\ doc' = d1
         /\ hist' = pushHistory(hist, "Moved text layer", doc, now)
         /\ Effects([canvas EXCEPT ![i] = obj], d1, TRUE, FALSE)
  /\ AfterPush
  /\ lastOp' = "object:moved"
  /\ UNCHANGED << timers, savedState, now, nextId, isUploading, toast >>

\* 'object:moved'
ObjectMovedBody(i, g) ==
  /\ i \in Grabbable
  /\ LET obj == Merge(canvas[i], g)
         d1  == updateTextLayer(doc, obj.layerId, [left |-> obj.left, top |-> obj.top])
     IN  /\ doc' = d1
         /\ hist' = pushHistory(hist, "Moved text layer", d1, now)
         /\ Effects([canvas EXCEPT ![i] = obj], d1, TRUE, FALSE)
  /\ AfterPush
  /\ lastOp' = "object:moved"
  /\ UNCHANGED << timers, savedState, now, nextId, isUploading, toast >>

\* 'object:modified'
ObjectModifiedBody(i, g) ==
  /\ i \in Grabbable
  /\ LET obj == Merge(canvas[i], g)
         d1  == updateTextLayer(doc, obj.layerId,
                  [ left |-> obj.left, top |-> obj.top, scaleX |-> obj.scaleX,
                    scaleY |-> obj.scaleY, angle |-> obj.angle ])
     IN  /\ doc' = d1
         /\ hist' = pushHistory(hist, "Modified text layer", d1, now)
         /\ Effects([canvas EXCEPT ![i] = obj], d1, TRUE, FALSE)
  /\ AfterPush
  /\ lastOp' = "object:modified"
  /\ UNCHANGED << timers, savedState, now, nextId, isUploading, toast >>

\* a 'text:changed' handler that records every keystroke in the history
TextChangedBody_pushes(i, text) ==
  /\ i \in Grabbable
  /\ LET obj == Merge(canvas[i], [text |-> text])
         d1  == updateTextLayer(doc, obj.layerId, [text |-> obj.text])
     IN  /\ doc' = d1
         /\ hist' = pushHistory(hist, "Edited text content", d1, now)
         /\ Effects([canvas EXCEPT ![i] = obj], d1, TRUE, FALSE)
  /\ AfterPush
  /\ lastOp' = "text:changed"
  /\ UNCHANGED << timers, savedState, now, nextId, isUploading, toast >>

\* 'text:changed'
TextChangedBody(i, text) ==
  /\ i \in Grabbable
  /\ LET obj == Merge(canvas[i], [text |-> text])
         d1  == updateTextLayer(doc, obj.layerId, [text |-> obj.text])
     IN  /\ doc' = d1
         /\ Effects([canvas EXCEPT ![i] = obj], d1, TRUE, FALSE)
  /\ AfterOther
  /\ lastOp' = "text:changed"
  /\ UNCHANGED << hist, timers, savedState, now, nextId, isUploading, toast >>

\* 'text:editing:exited'
EditingExitedBody(i) ==
  /\ i \in Grabbable
  /\ LET obj == canvas[i]
         d1  == updateTextLayer(doc, obj.layerId, [text |-> obj.text])
     IN  /\ doc' = d1
         /\ hist' = pushHistory(hist, "Edited text content", d1, now)
         /\ Effects(canvas, d1, TRUE, FALSE)
  /\ AfterPush
  /\ lastOp' = "text:editing:exited"
  /\ UNCHANGED << timers, savedState, now, nextId, isUploading, toast >>

\* the Image.fromURL(...).then callback of the live canvas
ImageLoadedBody ==
  /\ pendingLoad # Null
  /\ canvas' = ImageLoadedObjects(pendingLoad)
  /\ pendingLoad' = Null
  /\ syncStat' = NoSync
  /\ AfterOther
  /\ lastOp' = "imageLoaded"
  /\ UNCHANGED << doc, hist, timers, savedState, autosavePending, now, nextId,
                  canvasSize, exportCanvas, isUploading, toast >>

(***************************************************************************)
(* Autosave (hooks/useAutosave)                                            *)
(***************************************************************************)
\* the setter useLocalStorage returns: the value is kept in local storage
\* under the autosave key, serialised
setSavedState(value) == IF value = Null THEN Null ELSE JsonClone(value)

\* saveState that stores the selection along with the document
StateToSave_keepsSelection(d) ==
  [ backgroundImage  |-> d.backgroundImage,
    textLayers       |-> d.textLayers,
    selectedLayerIds |-> d.selectedLayerIds,
    canvasDimensions |-> d.canvasDimensions ]

\* saveState: the object the autosave timer hands to setSavedState
StateToSave(d) ==
  [ backgroundImage  |-> d.backgroundImage,
    textLayers       |-> d.textLayers,
    selectedLayerIds |-> <<>>,
    canvasDimensions |-> d.canvasDimensions ]

AutosaveFireBody ==
  /\ autosavePending
  /\ savedState' = setSavedState(StateToSave(doc))
  /\ autosavePending' = FALSE
  /\ syncStat' = NoSync
  /\ AfterOther
  /\ exportCanvas' = canvasSize
  /\ lastOp' = "autosave"
  /\ UNCHANGED << doc, hist, canvas, pendingLoad, timers, now, nextId, canvasSize, isUploading, toast >>

\* useAutosave.resetEditor
ResetBody ==
  /\ LET d1 == resetEditor(doc)
     IN  /\ doc' = d1
         /\ \E layersCh \in RefChange(doc.textLayers, d1.textLayers) :
            \E canvasCh \in RefChange(
                 << doc.canvasDimensions, doc.backgroundImage >>,
                 << d1.canvasDimensions, d1.backgroundImage >>) :
              Effects(canvas, d1, layersCh, canvasCh)
  /\ savedState' = setSavedState(Null)
  /\ AfterOther
  /\ lastOp' = "resetEditor"
  /\ UNCHANGED << hist, timers, now, nextId, isUploading, toast >>

\* page load: the editor store starts over, the history store is rehydrated
\* from its persisted copy, pending timers are gone, and Home's mount effect
\* restores the autosave snapshot when there is one; the restore renders
\* Home while canvasRef.current is still the canvas created at mount
ReloadBody ==
  /\ LET d1 == IF savedState # Null THEN importState(initialState, savedState)
               ELSE initialState
         pass == SyncLayers(<<>>, d1.textLayers)
     IN  /\ doc' = d1
         /\ canvas' = pass.objects
         /\ pendingLoad' = IF d1.backgroundImage # Null
                           THEN [url |-> d1.backgroundImage.url, textLayers |-> d1.textLayers]
                           ELSE Null
         /\ syncStat' = [ran |-> TRUE, created |-> pass.created,
                         removed |-> pass.removed, run |-> 1]
         /\ canvasSize' = d1.canvasDimensions
         /\ exportCanvas' = IF savedState # Null THEN initialState.canvasDimensions
                            ELSE Null
  /\ isUploading' = FALSE
  /\ toast' = Null
  /\ timers' = <<>>
  /\ autosavePending' = TRUE
  /\ AfterOther
  /\ lastOp' = "reload"
  /\ UNCHANGED << hist, savedState, now, nextId >>

\* the clock behind Date.now()
Tick ==
  /\ now < MaxNow
  /\ now' = now + 1
  /\ lastOp' = "tick"
  /\ syncStat' = NoSync
  /\ UNCHANGED << doc, hist, canvas, pendingLoad, timers, savedState,
                  autosavePending, nextId, nOps, pushRun, undoRun,
                  canvasSize, exportCanvas, isUploading, toast >>
  /\ lastClick' = NoClick
  /\ UNCHANGED fontVars

(***************************************************************************)
(* The editor: every handler, at most MaxOps invocations; its handlers     *)
(* leave the font panel alone                                              *)
(***************************************************************************)
CountedOp == nOps < MaxOps /\ nOps' = nOps + 1 /\ UNCHANGED fontVars

\* a handler other than a click on a history panel entry
Counted == CountedOp /\ lastClick' = NoClick

UploadImage == Counted /\ \E image \in Images : UploadImageBody(image)

UploadRejected == Counted /\ \E file \in UploadFiles : UploadRejectedBody(file)

UploadFailed ==
  Counted /\ \E file \in UploadFiles : \E error \in UploadErrors :
               UploadFailedBody(file, error)

HandleAddLayer == Counted /\ HandleAddLayerBody

HandleDeleteLayer == Counted /\ \E id \in 1..MaxIds : HandleDeleteLayerBody(id)

HandleMoveLayer ==
  Counted /\ \E id \in 1..MaxIds : \E direction \in Directions :
               HandleMoveLayerBody(id, direction)

HandleDuplicateLayer == Counted /\ \E id \in 1..MaxIds : HandleDuplicateLayerBody(id)

HandleToggleLock == Counted /\ \E id \in 1..MaxIds : HandleToggleLockBody(id)

LayerItemClick ==
  Counted /\ \E id \in 1..MaxIds : \E modifier \in Modifiers :
               LayerItemClickBody(id, modifier)

HandleChange == Counted /\ \E edit \in PropertyEdits : HandleChangeBody(edit)

DebouncedPushFire == Counted /\ DebouncedPushFireBody

Undo == Counted /\ UndoBody

Redo == Counted /\ RedoBody

Nudge == Counted /\ \E direction \in NudgeDirections : NudgeBody(direction)

HistoryItemClick ==
  CountedOp /\ \E item \in HistoryItems(hist) : HistoryItemClickBody(item[1], item[2])

ObjectMoved ==
  Counted /\ \E i \in 1..Len(canvas) : \E g \in Moves : ObjectMovedBody(i, g)

ObjectModified ==
  Counted /\ \E i \in 1..Len(canvas) : \E g \in Transforms : ObjectModifiedBody(i, g)

TextChanged ==
  Counted /\ \E i \in 1..Len(canvas) : \E text \in TypedTexts : TextChangedBody(i, text)

EditingExited == Counted /\ \E i \in 1..Len(canvas) : EditingExitedBody(i)

ImageLoaded == Counted /\ ImageLoadedBody

AutosaveFire == Counted /\ AutosaveFireBody

Reset == Counted /\ ResetBody

Reload == Counted /\ ReloadBody

Next ==
  \/ UploadImage
  \/ UploadRejected
  \/ UploadFailed
  \/ HandleAddLayer
  \/ HandleDeleteLayer
  \/ HandleMoveLayer
  \/ HandleDuplicateLayer
  \/ HandleToggleLock
  \/ LayerItemClick
  \/ HandleChange
  \/ DebouncedPushFire
  \/ Undo
  \/ Redo
  \/ HistoryItemClick
  \/ Nudge
  \/ ObjectMoved
  \/ ObjectModified
  \/ TextChanged
  \/ EditingExited
  \/ ImageLoaded
  \/ AutosaveFire
  \/ Reset
  \/ Reload
  \/ Tick

Spec == Init /\ [][Next]_vars

(***************************************************************************)
(* The history store on its own: pushes without bound on their number.     *)
(* One layer, one direction and a clock that stands still keep the pushed  *)
(* snapshots few, so that runs of more than MAX_HISTORY_SIZE pushes are    *)
(* explored.                                                               *)
(***************************************************************************)
Uncounted == UNCHANGED nOps /\ UNCHANGED fontVars /\ lastClick' = NoClick

HistUploadImage == Uncounted /\ \E image \in Images : UploadImageBody(image)

HistAddLayer == Uncounted /\ nextId = 1 /\ HandleAddLayerBody

HistMoveLayer == Uncounted /\ \E id \in 1..MaxIds : HandleMoveLayerBody(id, "up")

HistUndo == Uncounted /\ UndoBody

HistRedo == Uncounted /\ RedoBody

NextHistory ==
  \/ HistUploadImage
  \/ HistAddLayer
  \/ HistMoveLayer
  \/ HistUndo
  \/ HistRedo

SpecHistory == Init /\ [][NextHistory]_vars

(***************************************************************************)
(* The history store configured with a small maxHistorySize (the field is  *)
(* part of the persisted store state).  Handlers stop once past holds more *)
(* than maxHistorySize entries.                                            *)
(***************************************************************************)
ConfiguredHistory(size) == Merge(historyInitialState, [maxHistorySize |-> size])

InitSizes ==
  /\ InitEditor
  /\ \E size \in 1..MaxConfiguredSize : hist = ConfiguredHistory(size)

PastCapped == Len(hist.past) <= hist.maxHistorySize

SizedUploadImage == PastCapped /\ HistUploadImage

SizedAddLayer == PastCapped /\ HistAddLayer

SizedMoveLayer == PastCapped /\ HistMoveLayer

SizedUndo == PastCapped /\ HistUndo

SizedRedo == PastCapped /\ HistRedo

NextSizes ==
  \/ SizedUploadImage
  \/ SizedAddLayer
  \/ SizedMoveLayer
  \/ SizedUndo
  \/ SizedRedo

SpecHistorySizes == InitSizes /\ [][NextSizes]_vars

(***************************************************************************)
(* Layout and deferred pushes: the handlers that arrange layers and those  *)
(* that push to the history later, with undo and redo, at most             *)
(* MaxLayoutOps invocations.  One image, one property edit and one nudge   *)
(* direction keep the states few.                                          *)
(***************************************************************************)
LayoutOp ==
  /\ nOps < MaxLayoutOps
  /\ nOps' = nOps + 1
  /\ lastClick' = NoClick
  /\ UNCHANGED fontVars

LayoutUploadImage ==
  LayoutOp /\ UploadImageBody(DecodedImage(CHOOSE file \in UploadFiles : file.name = "a.png"))

LayoutAddLayer == LayoutOp /\ HandleAddLayerBody

LayoutItemClick == LayoutOp /\ \E id \in 1..MaxIds : LayerItemClickBody(id, "ctrl")

LayoutToggleLock == LayoutOp /\ \E id \in 1..MaxIds : HandleToggleLockBody(id)

LayoutChange == LayoutOp /\ HandleChangeBody(<< "opacity", 0, "Updated opacity" >>)

LayoutDebouncedPushFire == LayoutOp /\ DebouncedPushFireBody

LayoutSmartSpacing == LayoutOp /\ ApplySmartSpacingBody

LayoutSmartSpacingPushFire == LayoutOp /\ SmartSpacingPushFireBody

LayoutNudge == LayoutOp /\ NudgeBody("ArrowRight")

LayoutUndo == LayoutOp /\ canUndo(hist) /\ UndoBody

LayoutRedo == LayoutOp /\ canRedo(hist) /\ RedoBody

NextLayout ==
  \/ LayoutUploadImage
  \/ LayoutAddLayer
  \/ LayoutItemClick
  \/ LayoutToggleLock
  \/ LayoutChange
  \/ LayoutDebouncedPushFire
  \/ LayoutSmartSpacing
  \/ LayoutSmartSpacingPushFire
  \/ LayoutNudge
  \/ LayoutUndo
  \/ LayoutRedo

SpecLayout == Init /\ [][NextLayout]_vars

(***************************************************************************)
(* Smart spacing over arranged documents: the editor is opened on an       *)
(* autosaved document of two or three layers whose lefts are drawn from    *)
(* SpacingLefts; the user selects layers and spaces them.                  *)
(***************************************************************************)
SpacingLefts == {10, 50, 200}

\* a layer as addTextLayer builds it, dragged to its place
ArrangedLayer(id, left) ==
  Merge(Merge([id |-> id], DefaultLayer), [left |-> left, top |-> 100 + 40 * id])

ArrangedDocs ==
  LET image == DecodedImage(CHOOSE file \in UploadFiles : file.name = "a.png")
  IN  { [ backgroundImage  |-> image,
          textLayers       |-> [id \in 1..n |-> ArrangedLayer(id, lefts[id])],
          selectedLayerIds |-> <<>>,
          canvasDimensions |-> [width |-> image.dimensions.width,
                                height |-> image.dimensions.height] ]
        : n \in {2, 3}, lefts \in [1..3 -> SpacingLefts] }

\* the page loaded with the autosave snapshot of an arranged document and
\* an empty history store: the state ReloadBody leaves
InitSpacing ==
  \E d \in ArrangedDocs :
    LET saved == setSavedState(StateToSave(d))
        d1    == importState(initialState, saved)
        pass  == SyncLayers(<<>>, d1.textLayers)
    IN  /\ doc = d1
        /\ hist = historyInitialState
        /\ canvas = pass.objects
        /\ pendingLoad = [url |-> d1.backgroundImage.url, textLayers |-> d1.textLayers]
        /\ timers = <<>>
        /\ savedState = saved
        /\ autosavePending = TRUE
        /\ now = 0
        /\ nextId = Len(d1.textLayers) + 1
        /\ nOps = 0
        /\ lastOp = "reload"
        /\ pushRun = 0
        /\ undoRun = 0
        /\ syncStat = [ran |-> TRUE, created |-> pass.created,
                       removed |-> pass.removed, run |-> 1]
        /\ canvasSize = d1.canvasDimensions
        /\ exportCanvas = initialState.canvasDimensions
        /\ isUploading = FALSE
        /\ toast = Null
        /\ fonts = fontInitialState
        /\ fontJobs = {}
        /\ fontUploading = FALSE
        /\ nextFontId = 1
        /\ lastFont = NoFontOp
        /\ lastClick = NoClick

SpacingItemClick ==
  Counted /\ \E id \in 1..3 : \E modifier \in {"ctrl", "shift"} :
               LayerItemClickBody(id, modifier)

SpacingApply == Counted /\ ApplySmartSpacingBody

SpacingPushFire == Counted /\ SmartSpacingPushFireBody

NextSpacing ==
  \/ SpacingItemClick
  \/ SpacingApply
  \/ SpacingPushFire

SpecSpacing == InitSpacing /\ [][NextSpacing]_vars

(***************************************************************************)
(* The font panel alone: CustomFontUpload and CustomFontList over the font *)
(* store.  A file input change or a drop hands its files to processFile    *)
(* one after the other; each call runs up to its await of loadCustomFont,  *)
(* and the loads complete later, in any order.                             *)
(***************************************************************************)
\* the files of one change or drop event
FontDrops ==
  { <<f>> : f \in FontFiles } \cup { <<f, g>> : f \in FontFiles, g \in FontFiles }

ValidFiles(files) == SelectSeq(files, validateFontFile)

\* processFile up to `await loadCustomFont`, for each file in turn
RECURSIVE ProcessFiles(_, _, _, _)
ProcessFiles(fs, files, id, warned) ==
  IF files = <<>> THEN [fs |-> fs, warned |-> warned]
  ELSE IF ~validateFontFile(Head(files))
       THEN ProcessFiles(fs, Tail(files), id, warned)
       ELSE LET customFont == createCustomFontFromFile(Head(files), id)
                existingFont == HasFontOfFamily(fs, customFont.family)
            IN  ProcessFiles(setFontLoading(addCustomFont(fs, customFont), customFont.id, TRUE),
                             Tail(files), id + 1, warned \/ existingFont)

\* every other upload in flight is no longer the only thing acting on the list
Disturbed(jobs) == { [j EXCEPT !.alone = FALSE] : j \in jobs }

\* handleFileChange / handleDrop
UploadFontsBody(files) ==
  LET n    == Len(ValidFiles(files))
      done == ProcessFiles(fonts, files, nextFontId, FALSE)
  IN  /\ ~fontUploading
      /\ nextFontId + n - 1 <= MaxFontIds
      /\ fonts' = done.fs
      /\ fontJobs' = Disturbed(fontJobs) \cup
                     { [id |-> nextFontId + k - 1, before |-> fonts.customFonts,
                        alone |-> (n = 1 /\ fontJobs = {})] : k \in 1..n }
      /\ nextFontId' = nextFontId + n
      /\ fontUploading' = validateFontFile(files[Len(files)])
      /\ toast' = IF done.warned THEN "Font replaced"
                  ELSE IF n < Len(files) THEN "Invalid font file"
                  ELSE toast
      /\ lastFont' = [NoFontOp EXCEPT !.op = "upload"]
      /\ UNCHANGED editorVars

\* processFile after `await loadCustomFont`: the load succeeded
FontLoadedBody(job) ==
  /\ job \in fontJobs
  /\ fonts' = updateFontLoadStatus(fonts, job.id, TRUE)
  /\ toast' = "Font uploaded successfully"
  /\ fontUploading' = FALSE
  /\ fontJobs' = Disturbed(fontJobs \ {job})
  /\ lastFont' = [op |-> "loaded", id |-> job.id, before |-> job.before, alone |-> job.alone]
  /\ UNCHANGED << nextFontId, editorVars >>

\* processFile after `await loadCustomFont`: the load failed
FontLoadFailedBody(job) ==
  /\ job \in fontJobs
  /\ fonts' = removeCustomFont(fonts, job.id)
  /\ toast' = "Failed to load font"
  /\ fontUploading' = FALSE
  /\ fontJobs' = Disturbed(fontJobs \ {job})
  /\ lastFont' = [op |-> "loadFailed", id |-> job.id, before |-> job.before, alone |-> job.alone]
  /\ UNCHANGED << nextFontId, editorVars >>

\* CustomFontList.handleRemoveFont
HandleRemoveFontBody(i) ==
  /\ i \in 1..Len(fonts.customFonts)
  /\ fonts' = removeCustomFont(fonts, fonts.customFonts[i].id)
  /\ toast' = "Font removed"
  /\ fontJobs' = Disturbed(fontJobs)
  /\ lastFont' = [NoFontOp EXCEPT !.op = "remove"]
  /\ UNCHANGED << fontUploading, nextFontId, editorVars >>

\* CustomFontList.handleClearAll, the confirm dialog accepted
HandleClearAllBody ==
  /\ Len(fonts.customFonts) > 0
  /\ fonts' = clearAllCustomFonts(fonts)
  /\ toast' = "All fonts cleared"
  /\ fontJobs' = Disturbed(fontJobs)
  /\ lastFont' = [NoFontOp EXCEPT !.op = "clearAll"]
  /\ UNCHANGED << fontUploading, nextFontId, editorVars >>

UploadFonts == \E files \in FontDrops : UploadFontsBody(files)

FontLoaded == \E job \in fontJobs : FontLoadedBody(job)

FontLoadFailed == \E job \in fontJobs : FontLoadFailedBody(job)

HandleRemoveFont == \E i \in 1..MaxFontIds : HandleRemoveFontBody(i)

HandleClearAll == HandleClearAllBody

NextFonts ==
  \/ UploadFonts
  \/ FontLoaded
  \/ FontLoadFailed
  \/ HandleRemoveFont
  \/ HandleClearAll

SpecFonts == Init /\ [][NextFonts]_vars

(***************************************************************************)
(* Properties                                                              *)
(***************************************************************************)
\* the handlers that end with a pushHistory call
PushingOps ==
  { "uploadImage", "handleAddLayer", "handleDeleteLayer", "handleMoveLayer",
    "handleDuplicateLayer", "handleToggleLock", "debouncedPushHistory",
    "object:moved", "object:modified", "text:editing:exited",
    "nudge", "smartSpacingPush" }

\* the entries the history store holds, oldest first
Timeline(h) ==
  h.past \o (IF h.present = Null THEN <<>> ELSE <<h.present>>) \o h.future

\* C1: right after any pushHistory, whatever came before (undo calls
\* included), future is empty and canRedo() is false.
C1_PushClearsFuture ==
  lastOp \in PushingOps => hist.future = <<>> /\ ~canRedo(hist)

\* a push made after an undo: layer 1 was added and undone, layer 2 added
C1_Witness ==
  /\ lastOp = "handleAddLayer"
  /\ nextId = 3
  /\ Len(hist.past) = 1
  /\ hist.future = <<>>

\* C2: with maxHistorySize 20, past.length + 1 <= maxHistorySize in every
\* state reached by pushes, undos and redos, also after more than 20 pushes.
C2_HistoryLength ==
  /\ hist.maxHistorySize = 20
  /\ Len(hist.past) + 1 <= hist.maxHistorySize

\* 22 pushes in a row were made and the oldest entries dropped
C2_Witness ==
  /\ pushRun = MAX_HISTORY_SIZE + 2
  /\ Len(hist.past) = MAX_HISTORY_SIZE - 1

\* C3 as stated: after N pushes from the empty store (1 <= N < maxHistorySize)
\* canUndo() is true, and N undo() calls give present = null and past = [].
C3_AsStated ==
  pushRun \in 1..(hist.maxHistorySize - 1) =>
    /\ undoRun = 0 => canUndo(hist)
    /\ undoRun = pushRun => hist.present = Null /\ hist.past = <<>>

\* C3 amended: after N pushes from the empty store (1 <= N < maxHistorySize)
\* past holds N - 1 entries, so canUndo() is true exactly when N >= 2; each
\* of the first N - 1 undo() calls moves one entry to future, after which
\* past is empty and the first pushed entry is present; further undo() calls
\* change nothing and present never becomes null again.
C3_UndoAfterPushes ==
  pushRun \in 1..(hist.maxHistorySize - 1) =>
    /\ hist.present # Null
    /\ Len(hist.past) = Max(pushRun - 1 - undoRun, 0)
    /\ Len(hist.future) = Min(undoRun, pushRun - 1)
    /\ undoRun = 0 => (canUndo(hist) <=> pushRun >= 2)
    /\ undoRun >= pushRun - 1 =>
         /\ ~canUndo(hist)
         /\ hist.present.description = "Uploaded background image"
         /\ doc.textLayers = <<>>

\* 19 pushes, then 19 undo() calls, the last of which had nothing to undo
C3_Witness ==
  /\ pushRun = MAX_HISTORY_SIZE - 1
  /\ undoRun = pushRun
  /\ lastOp = "undo"
  /\ Len(hist.future) = MAX_HISTORY_SIZE - 2

\* C4: after an undo() with something to undo, or a redo() with something to
\* redo, the editor's background image, layers and canvas dimensions are
\* those of the snapshot in the entry that became present.
C4_UndoRedoApplySnapshot ==
  [][ ( \/ lastOp' = "undo" /\ Len(hist.past) > 0 /\ hist.present # Null
        \/ lastOp' = "redo" /\ Len(hist.future) > 0 )
      => /\ doc'.backgroundImage  = hist'.present.state.backgroundImage
         /\ doc'.textLayers       = hist'.present.state.textLayers
         /\ doc'.canvasDimensions = hist'.present.state.canvasDimensions ]_vars

\* an undo that took effect (past is still non-empty) and left layers behind
C4_Witness ==
  /\ lastOp = "undo"
  /\ Len(hist.past) > 0
  /\ Len(hist.future) > 0
  /\ doc.textLayers # <<>>

\* C5: undo() with an empty past or a null present, and redo() with an empty
\* future, change neither the history store nor the editor store.
C5_BoundaryNoOps ==
  [][ ( \/ lastOp' = "undo" /\ (Len(hist.past) = 0 \/ hist.present = Null)
        \/ lastOp' = "redo" /\ Len(hist.future) = 0 )
      => UNCHANGED << doc, hist >> ]_vars

\* an undo() that found an entry in present and nothing in past
C5_Witness ==
  /\ lastOp = "undo"
  /\ hist.present # Null
  /\ hist.past = <<>>
  /\ hist.future = <<>>

\* C6 as stated: a snapshot stored by a handler's pushHistory carries no
\* selection, and undo() and redo() leave selectedLayerIds as it was.
C6_AsStated ==
  [][ /\ lastOp' \in PushingOps =>
           \/ "selectedLayerIds" \notin DOMAIN hist'.present.state
           \/ hist'.present.state.selectedLayerIds = <<>>
      /\ lastOp' \in {"undo", "redo"} =>
           doc'.selectedLayerIds = doc.selectedLayerIds ]_vars

\* C7: every selected id is the id of a layer in textLayers.
C7_SelectionInLayers ==
  \A i \in 1..Len(doc.selectedLayerIds) :
    doc.selectedLayerIds[i] \in LayerIds(doc.textLayers)

\* a layer was deleted while another one stays selected
C7_Witness ==
  /\ lastOp = "handleDeleteLayer"
  /\ nextId = 3
  /\ doc.selectedLayerIds # <<>>

\* C8: no two layers of textLayers share an id.
C8_UniqueLayerIds ==
  \A i, j \in 1..Len(doc.textLayers) :
    i # j => doc.textLayers[i].id # doc.textLayers[j].id

\* a layer and its duplicate
C8_Witness ==
  /\ lastOp = "handleDuplicateLayer"
  /\ Len(doc.textLayers) = 2

C10_SyncIdempotent ==
  syncStat.ran =>
    /\ SyncLayers(canvas, doc.textLayers) =
         [objects |-> canvas, created |-> 0, removed |-> 0]
    /\ syncStat.run = 2 => syncStat.created = 0 /\ syncStat.removed = 0

\* two passes in a row over the same layers, with objects on the canvas
C10_Witness ==
  /\ syncStat.run = 2
  /\ TaggedIds(canvas) # {}

\* the position and the style and geometry properties of a surface object
\* equal those of the layer record
SurfaceMatches(o, layer) ==
  /\ o.text = layer.text
  /\ o.left = layer.left
  /\ o.top = layer.top
  /\ o.fontFamily = layer.fontFamily
  /\ o.fontSize = layer.fontSize
  /\ o.fontWeight = layer.fontWeight
  /\ o.fill = layer.color
  /\ o.opacity = layer.opacity
  /\ o.textAlign = layer.textAlign
  /\ o.angle = layer.angle
  /\ o.scaleX = layer.scaleX
  /\ o.scaleY = layer.scaleY
  /\ o.lineHeight = layer.lineHeight
  /\ o.charSpacing = layer.charSpacing

\* C11 as stated: after a layer sync pass every layer has a surface object
\* tagged with its id whose position, text, font family, size and weight,
\* color, opacity, alignment, angle, scale factors, line height and character
\* spacing equal the layer record's.
C11_AsStated ==
  syncStat.ran =>
    \A i \in 1..Len(doc.textLayers) :
      \E k \in 1..Len(canvas) :
        /\ IsTagged(canvas[k])
        /\ canvas[k].layerId = doc.textLayers[i].id
        /\ SurfaceMatches(canvas[k], doc.textLayers[i])

\* the layer ids of the tagged surface objects in stacking order, bottom first
TaggedOrder(objects) ==
  LET tagged == SelectSeq(objects, IsTagged)
  IN  [i \in 1..Len(tagged) |-> tagged[i].layerId]

\* C12 as stated: after a layer sync pass the stacking order of the tagged
\* surface objects is the order of textLayers (later on top), also after
\* moveLayerUp, moveLayerDown, moveLayerToTop, moveLayerToBottom and after the
\* undo or redo of a reorder.
C12_AsStated ==
  syncStat.ran =>
    TaggedOrder(canvas) = [i \in 1..Len(doc.textLayers) |-> doc.textLayers[i].id]

\* d2 is d with the properties props written to the layer id and nothing else
\* changed
OnlyLayerUpdated(d, d2, id, props) ==
  /\ d2.backgroundImage = d.backgroundImage
  /\ d2.canvasDimensions = d.canvasDimensions
  /\ d2.selectedLayerIds = d.selectedLayerIds
  /\ Len(d2.textLayers) = Len(d.textLayers)
  /\ \A i \in 1..Len(d.textLayers) :
       d2.textLayers[i] = IF d.textLayers[i].id = id
                          THEN Merge(d.textLayers[i], props)
                          ELSE d.textLayers[i]

\* the step pushed exactly one entry, which captures the editor state the
\* step left
PushedOnce ==
  /\ hist.present # Null
  /\ hist'.past = hist.past \o << hist.present >>
  /\ hist'.future = <<>>
  /\ hist'.present.state = JsonClone(doc')

\* C13: an 'object:moved' event writes the object's position to its layer,
\* an 'object:modified' event its position, scale and angle, and each then
\* pushes exactly one entry capturing the updated editor state; a
\* 'text:changed' event writes only the layer's text and pushes nothing; a
\* 'text:editing:exited' event pushes exactly once, with the final text.
C13_ReverseSync ==
  [][ /\ lastOp' = "object:moved" =>
           /\ \E id \in TaggedIds(canvas) : \E g \in Moves :
                OnlyLayerUpdated(doc, doc', id, g)
           /\ PushedOnce
           /\ hist'.present.description = "Moved text layer"
      /\ lastOp' = "object:modified" =>
           /\ \E id \in TaggedIds(canvas) : \E g \in Transforms :
                OnlyLayerUpdated(doc, doc', id, g)
           /\ PushedOnce
           /\ hist'.present.description = "Modified text layer"
      /\ lastOp' = "text:changed" =>
           /\ \E id \in TaggedIds(canvas) : \E text \in TypedTexts :
                OnlyLayerUpdated(doc, doc', id, [text |-> text])
           /\ hist' = hist
      /\ lastOp' = "text:editing:exited" =>
           /\ \E k \in 1..Len(canvas) :
                /\ IsTagged(canvas[k])
                /\ OnlyLayerUpdated(doc, doc', canvas[k].layerId,
                                    [text |-> canvas[k].text])
           /\ PushedOnce
           /\ hist'.present.description = "Edited text content" ]_vars

\* text typed on the canvas, then editing finished: one entry with that text
C13_Witness ==
  /\ lastOp = "text:editing:exited"
  /\ Len(hist.past) = 2
  /\ hist.present.description = "Edited text content"
  /\ Len(doc.textLayers) = 1
  /\ doc.textLayers[1].text = "Hello"
  /\ hist.present.state.textLayers = doc.textLayers
  /\ hist.past[2].state.textLayers[1].text = "New Text"

\* the history holds "upload, add" and the one layer sits where it was added
ScenarioBeforeMove ==
  /\ Len(doc.textLayers) = 1
  /\ doc.textLayers[1].left = 100 /\ doc.textLayers[1].top = 100
  /\ Len(hist.past) = 1
  /\ hist.past[1].description = "Uploaded background image"
  /\ hist.present # Null
  /\ hist.present.description = "Added text layer"

\* the history holds "upload, add, move" and the layer sits where it was moved
ScenarioAfterMove ==
  /\ Len(doc.textLayers) = 1
  /\ doc.textLayers[1].left = 150 /\ doc.textLayers[1].top = 120
  /\ Len(hist.past) = 2
  /\ hist.past[1].description = "Uploaded background image"
  /\ hist.past[2].description = "Added text layer"
  /\ hist.present.description \in {"Moved text layer", "Modified text layer"}
  /\ hist.future = <<>>

\* C14: uploading the 400x300 image makes the canvas dimensions 400x300;
\* adding the first text layer gives one layer at (100,100); moving it on the
\* canvas to (150,120) writes that position to the layer and pushes a new
\* present capturing it; one undo then puts the layer back at (100,100).
C14_Scenario ==
  [][ /\ lastOp' = "uploadImage" =>
           doc'.canvasDimensions = [width |-> 400, height |-> 300]
      /\ (lastOp' = "handleAddLayer" /\ doc.textLayers = <<>>) =>
           /\ Len(doc'.textLayers) = 1
           /\ doc'.textLayers[1].left = 100 /\ doc'.textLayers[1].top = 100
      /\ (lastOp' \in {"object:moved", "object:modified"} /\ ScenarioBeforeMove) =>
           /\ Len(doc'.textLayers) = 1
           /\ doc'.textLayers[1].left = 150 /\ doc'.textLayers[1].top = 120
           /\ hist'.present # hist.present
           /\ hist'.past = << hist.past[1], hist.present >>
           /\ hist'.present.state.textLayers = doc'.textLayers
      /\ (lastOp' = "undo" /\ ScenarioAfterMove) =>
           /\ Len(doc'.textLayers) = 1
           /\ doc'.textLayers[1].left = 100 /\ doc'.textLayers[1].top = 100 ]_vars

\* upload, add, move on the canvas, undo
C14_Witness ==
  /\ lastOp = "undo"
  /\ doc.canvasDimensions = [width |-> 400, height |-> 300]
  /\ Len(hist.past) = 1
  /\ hist.present.description = "Added text layer"
  /\ Len(hist.future) = 1
  /\ hist.future[1].description = "Moved text layer"
  /\ hist.future[1].state.textLayers[1].left = 150
  /\ doc.textLayers[1].left = 100 /\ doc.textLayers[1].top = 100

\* C15 as stated: at most one debounced pushHistory call is pending at any
\* time, so that a burst of property edits, each made before the pending call
\* of the previous one fired, ends with one pending call and one push.
C15_AsStated == Len(timers) <= 1

\* the persisted snapshot holds the document's background image (as it
\* serialises), layers and canvas dimensions, and an empty selection
SavedIs(saved, d) ==
  /\ saved # Null
  /\ saved.textLayers = d.textLayers
  /\ saved.canvasDimensions = d.canvasDimensions
  /\ saved.selectedLayerIds = <<>>
  /\ IF d.backgroundImage = Null THEN saved.backgroundImage = Null
     ELSE /\ saved.backgroundImage # Null
          /\ saved.backgroundImage.url = d.backgroundImage.url
          /\ saved.backgroundImage.dimensions = d.backgroundImage.dimensions

\* the three fields the autosave effect depends on
AutosaveDeps(d) == << d.backgroundImage, d.textLayers, d.canvasDimensions >>

C17_AsStated ==
  [][ /\ lastOp' = "resetEditor" =>
           doc' = initialState /\ savedState' = Null
      /\ (lastOp = "resetEditor" /\ lastOp' = "autosave") =>
           savedState' = Null ]_vars

\* exportToPng: the multiplier max(imgWidth / canvasWidth, imgHeight /
\* canvasHeight) as the fraction <<numerator, denominator>>
ExportMultiplier(cnv, image) ==
  IF image.dimensions.width * cnv.height >= image.dimensions.height * cnv.width
  THEN << image.dimensions.width, cnv.width >>
  ELSE << image.dimensions.height, cnv.height >>

\* the pixel size canvas.toDataURL({multiplier, width, height}) produces
ExportedSize(cnv, image) ==
  LET multiplier == ExportMultiplier(cnv, image)
  IN  [ width  |-> (cnv.width * multiplier[1]) \div multiplier[2],
        height |-> (cnv.height * multiplier[1]) \div multiplier[2] ]

NativeSize(image) ==
  [width |-> image.dimensions.width, height |-> image.dimensions.height]

C20_AsStated ==
  (lastFont.op = "loadFailed" /\ lastFont.alone)
    => /\ fonts.customFonts = lastFont.before
       /\ lastFont.id \notin fonts.loadingFonts


\* C22 as stated: after 21 or more pushHistory calls in a row, each of the
\* first 20 undo() calls that follow takes effect, moving one more entry to
\* future.
C22_AsStated ==
  (pushRun >= MAX_HISTORY_SIZE + 1 /\ undoRun \in 1..MAX_HISTORY_SIZE)
    => Len(hist.future) = undoRun

\* C24: a non-empty past implies a non-null present, canUndo() is true
\* exactly when undo() would change the stores, and canRedo() exactly when
\* redo() would.
C24_CanUndoCanRedo ==
  /\ Len(hist.past) > 0 => hist.present # Null
  /\ canUndo(hist) <=> undo(hist, doc).hist # hist
  /\ canRedo(hist) <=> redo(hist, doc).hist # hist

\* an undo() took effect and left both an entry to undo and one to redo
C24_Witness ==
  /\ lastOp = "undo"
  /\ canUndo(hist)
  /\ canRedo(hist)

\* C25: k undo() calls followed by k redo() calls (k <= past.length), and k
\* redo() calls followed by k undo() calls (k <= future.length), give back
\* past, present and future entry for entry; neither changes the number of
\* entries past.length + future.length.
C25_UndoRedoInverse ==
  /\ \A k \in 0..Len(hist.past) :
       LET u == UndoTimes(hist, doc, k)
           r == RedoTimes(u.hist, u.doc, k)
       IN  /\ r.hist = hist
           /\ Len(u.hist.past) + Len(u.hist.future) = Len(hist.past) + Len(hist.future)
           /\ Len(u.hist.future) = Len(hist.future) + k
  /\ \A k \in 0..Len(hist.future) :
       LET r == RedoTimes(hist, doc, k)
           u == UndoTimes(r.hist, r.doc, k)
       IN  /\ u.hist = hist
           /\ Len(r.hist.past) + Len(r.hist.future) = Len(hist.past) + Len(hist.future)
           /\ Len(r.hist.past) = Len(hist.past) + k

\* a redo() after two undo() calls: entries on both sides of present
C25_Witness ==
  /\ lastOp = "redo"
  /\ Len(hist.past) >= 2
  /\ Len(hist.future) >= 1


\* C30: a click on the past entry at index i makes that entry present, past
\* its first i entries, and puts the entries after it and the old present in
\* front of future, in order; a click on the future entry at index j makes
\* that entry present; either way the editor store ends equal to the
\* clicked entry's snapshot.
C30_HistoryItemClick ==
  [][ /\ lastClick'.type = "past" =>
           LET i == lastClick'.index
           IN  /\ hist'.present = hist.past[i + 1]
               /\ hist'.past = SubSeq(hist.past, 1, i)
               /\ hist'.future = SubSeq(hist.past, i + 2, Len(hist.past))
                                   \o << hist.present >> \o hist.future
               /\ doc' = hist.past[i + 1].state
      /\ lastClick'.type = "future" =>
           LET j == lastClick'.index
           IN  /\ hist'.present = hist.future[j + 1]
               /\ hist'.past = hist.past \o << hist.present >> \o SubSeq(hist.future, 1, j)
               /\ hist'.future = SubSeq(hist.future, j + 2, Len(hist.future))
               /\ doc' = hist.future[j + 1].state ]_vars

\* a click that went back two steps: the first of two past entries
C30_Witness ==
  /\ lastClick = [type |-> "past", index |-> 0]
  /\ Len(hist.future) = 2
  /\ hist.past = <<>>


C28_AsStated ==
  lastOp \in {"uploadImage", "uploadRejected", "uploadFailed"} => ~isUploading


\* C27 as stated: when the background image load of the live canvas has
\* completed, the canvas holds exactly one tagged object for every layer of
\* the editor store and none for any other id.
C27_AsStated ==
  lastOp = "imageLoaded" =>
    /\ TaggedIds(canvas) = LayerIds(doc.textLayers)
    /\ \A id \in LayerIds(doc.textLayers) :
         Cardinality({ i \in 1..Len(canvas) :
                         IsTagged(canvas[i]) /\ canvas[i].layerId = id }) = 1


\* the document part of a snapshot: everything but the selection
DocumentOf(state) ==
  [ backgroundImage  |-> state.backgroundImage,
    textLayers       |-> state.textLayers,
    canvasDimensions |-> state.canvasDimensions ]

\* C26 as stated: the entry a deferred push creates (the 500 ms debounce of
\* a property edit, the 100 ms timer of smart spacing) holds the document
\* the scheduling edit produced, whatever ran in between; after an undo()
\* made while the push was pending, the push does not empty future.
C26_AsStated ==
  [][ /\ lastOp' = "debouncedPushHistory" =>
           DocumentOf(hist'.present.state) = DocumentOf(JsonClone(Head(timers).edited))
      /\ lastOp' = "smartSpacingPush" =>
           DocumentOf(hist'.present.state)
             = DocumentOf(JsonClone(timers[FirstSpacingTimer(timers)].edited))
      /\ (lastOp' \in {"debouncedPushHistory", "smartSpacingPush"} /\ lastOp = "undo")
           => hist'.future # <<>> ]_vars


\* position, scale and rotation of a layer
PlacementOf(layer) ==
  << layer.left, layer.top, layer.scaleX, layer.scaleY, layer.angle >>

\* C29 as stated: a drag or resize on the canvas, a nudge and smart spacing
\* leave position, scale and rotation of every locked layer as they were.
C29_AsStated ==
  [][ lastOp' \in {"object:moved", "object:modified", "nudge", "applySmartSpacing"} =>
        \A i \in 1..Len(doc.textLayers) : \A j \in 1..Len(doc'.textLayers) :
          (IsLocked(doc.textLayers[i]) /\ doc'.textLayers[j].id = doc.textLayers[i].id)
            => PlacementOf(doc'.textLayers[j]) = PlacementOf(doc.textLayers[i]) ]_vars


\* the selected layer at index i comes before the one at index j when the
\* selection is read from left to right (layers at the same left: as they
\* stand in textLayers)
LeftOf(layers, i, j) ==
  layers[i].left < layers[j].left \/ (layers[i].left = layers[j].left /\ i < j)

\* C21 as stated, on the scenario: three selected layers at lefts 10, 50 and
\* 200 end, after smart spacing, in an arithmetic progression that runs from
\* 10 to max(100, 190).
C21_AsStated ==
  [][ ( /\ lastOp' = "applySmartSpacing"
        /\ Len(doc.textLayers) = 3
        /\ Len(doc.selectedLayerIds) = 3
        /\ { doc.textLayers[i].left : i \in 1..3 } = {10, 50, 200} )
      => /\ \E i \in 1..3 : doc'.textLayers[i].left = 10
         /\ \E i \in 1..3 : doc'.textLayers[i].left = Max(100, 190)
         /\ \A i \in 1..3 : doc'.textLayers[i].left \in 10..Max(100, 190) ]_vars

\* C21 amended: smart spacing on n >= 2 selected layers keeps the leftmost
\* one at its left L, leaves every top (and every unselected layer)
\* unchanged, and puts the k-th selected layer from the left (k = 0..n-1) at
\* L + k * S / (n - 1), where S = max(100, current spread): the lefts run
\* from L to L + S.  Lefts 10, 50, 200 become 10, 105, 200.
C21_SmartSpacing ==
  [][ lastOp' = "applySmartSpacing" =>
        LET layers == doc.textLayers
            sel    == { i \in 1..Len(layers) : Includes(doc.selectedLayerIds, layers[i].id) }
            n      == Cardinality(sel)
            L      == CHOOSE x \in { layers[i].left : i \in sel } :
                        \A i \in sel : x <= layers[i].left
            R      == CHOOSE x \in { layers[i].left : i \in sel } :
                        \A i \in sel : x >= layers[i].left
            S      == Max(100, R - L)
            rank(i) == Cardinality({ j \in sel : LeftOf(layers, j, i) })
        IN  /\ n >= 2
            /\ Len(doc'.textLayers) = Len(layers)
            /\ \A i \in 1..Len(layers) :
                 IF i \in sel
                 THEN /\ (doc'.textLayers[i].left - L) * (n - 1) = rank(i) * S
                      /\ doc'.textLayers[i] =
                           [layers[i] EXCEPT !.left = doc'.textLayers[i].left]
                 ELSE doc'.textLayers[i] = layers[i]
            /\ doc'.selectedLayerIds = doc.selectedLayerIds ]_vars

\* the scenario has run: the three layers stand at 10, 105 and 200
C21_Witness ==
  /\ lastOp = "applySmartSpacing"
  /\ Len(doc.selectedLayerIds) = 3
  /\ { doc.textLayers[i].left : i \in 1..Len(doc.textLayers) } = {10, 105, 200}

=============================================================================
